---- MODULE Spec2Model ----
(***************************************************************************)
(* Model of src/config/graph.rs: the pipeline topology graph (Graph),      *)
(* its construction (add_source, add_transform, add_transform_output,      *)
(* add_sink) and its validations (paths / paths_rec, typecheck,            *)
(* check_inputs).                                                          *)
(*                                                                         *)
(* Strings are sequences of character codes, so that format!, join and     *)
(* the lexicographic order behind Vec<String>::sort are computed and not   *)
(* assumed.  A ComponentKey is the string of its id.                       *)
(***************************************************************************)
EXTENDS Naturals, Sequences, FiniteSets

VARIABLES nodes, edges, result

vars == <<nodes, edges, result>>

----------------------------------------------------------------------------
(* Bounds of the model                                                     *)

\* most edges of a graph of Spec and of SpecInputs
MaxEdges == 2
\* most edges of a graph of SpecPaths
MaxPathEdges == 3
\* most edges added to the cycle SpecCycle starts from
MaxExtraEdges == 2
\* most inputs one add_transform / add_sink call declares
MaxInputs == 1
\* most named outputs registered on one transform
MaxPorts == 1

----------------------------------------------------------------------------
(* Text                                                                    *)

\* "Cyclic dependency detected in the chain [ "
CyclicPrefix == <<67, 121, 99, 108, 105, 99, 32, 100, 101, 112, 101, 110, 100, 101, 110, 99, 121, 32, 100, 101, 116, 101, 99, 116, 101, 100, 32, 105, 110, 32, 116, 104, 101, 32, 99, 104, 97, 105, 110, 32, 91, 32>>
\* " -> "
Arrow == <<32, 45, 62, 32>>
\* " ]"
CyclicSuffix == <<32, 93>>
\* "Data type mismatch between "
MismatchPrefix == <<68, 97, 116, 97, 32, 116, 121, 112, 101, 32, 109, 105, 115, 109, 97, 116, 99, 104, 32, 98, 101, 116, 119, 101, 101, 110, 32>>
\* " ("
OpenParen == <<32, 40>>
\* ") and "
MismatchMiddle == <<41, 32, 97, 110, 100, 32>>
\* ")"
CloseParen == <<41>>
\* "Input \""
InputPrefix == <<73, 110, 112, 117, 116, 32, 34>>
\* "\" for "
InputFor == <<34, 32, 102, 111, 114, 32>>
\* " \""
InputQuote == <<32, 34>>
\* "\" doesn't match any components."
InputSuffix == <<34, 32, 100, 111, 101, 115, 110, 39, 116, 32, 109, 97, 116, 99, 104, 32, 97, 110, 121, 32, 99, 111, 109, 112, 111, 110, 101, 110, 116, 115, 46>>
\* "transform"
TransformText == <<116, 114, 97, 110, 115, 102, 111, 114, 109>>
\* "sink"
SinkText == <<115, 105, 110, 107>>
\* "."
Dot == <<46>>

\* component ids "a", "b", "c", "s", "t", "x" and the port name "e"
KeyA == <<97>>
KeyB == <<98>>
KeyC == <<99>>
KeyS == <<115>>
KeyT == <<116>>
KeyX == <<120>>
PortE == <<101>>

\* DataType and the text its derived Debug prints
DataType == {"Log", "Metric", "Any"}

DebugFmt(ty) ==
  CASE ty = "Log" -> <<76, 111, 103>>
    [] ty = "Metric" -> <<77, 101, 116, 114, 105, 99>>
    [] ty = "Any" -> <<65, 110, 121>>

\* ComponentKey's Display: the id itself
to_string(key) == key

\* ComponentKey::join: "<id>.<name>"
join(key, name) == key \o Dot \o name

\* String's Ord: byte-wise lexicographic, a proper prefix is smaller
StrLess(u, v) ==
  LET n == IF Len(u) < Len(v) THEN Len(u) ELSE Len(v)
      d == {i \in 1..n : u[i] # v[i]}
  IN IF d = {} THEN Len(u) < Len(v)
     ELSE LET i == CHOOSE j \in d : \A k \in d : j <= k
          IN u[i] < v[i]

\* [String].join(sep)
RECURSIVE JoinWith(_, _)
JoinWith(ss, sep) ==
  IF ss = <<>> THEN <<>>
  ELSE IF Len(ss) = 1 THEN Head(ss)
  ELSE Head(ss) \o sep \o JoinWith(Tail(ss), sep)

Reverse(q) == [i \in 1..Len(q) |-> q[Len(q) + 1 - i]]

\* Vec::sort on strings (stable; the order is total, so the result is the
\* ascending arrangement): insertion of each element after the last element
\* not greater than it
RECURSIVE InsertSorted(_, _)
InsertSorted(q, m) ==
  IF q = <<>> THEN <<m>>
  ELSE IF StrLess(m, Head(q)) THEN <<m>> \o q
  ELSE <<Head(q)>> \o InsertSorted(Tail(q), m)

RECURSIVE sort(_)
sort(q) == IF q = <<>> THEN <<>> ELSE InsertSorted(sort(SubSeq(q, 1, Len(q) - 1)), q[Len(q)])

\* Vec::dedup: drops every element equal to the one kept just before it
DedupSkipped(q) == q
RECURSIVE dedup(_)
dedup(q) ==
  IF Len(q) <= 1 THEN q
  ELSE LET r == dedup(SubSeq(q, 1, Len(q) - 1))
       IN IF r[Len(r)] = q[Len(q)] THEN r ELSE Append(r, q[Len(q)])

----------------------------------------------------------------------------
(* Node, Edge, Graph                                                       *)

Source(ty) == [kind |-> "Source", ty |-> ty]
Transform(in_ty, out_ty, named_outputs) ==
  [kind |-> "Transform", in_ty |-> in_ty, out_ty |-> out_ty, named_outputs |-> named_outputs]
Sink(ty) == [kind |-> "Sink", ty |-> ty]
\* HashMap::get returning None
None == [kind |-> "None"]

Edge(from, to) == [from |-> from, to |-> to]

\* Graph::default()
EmptyGraph == [nodes |-> <<>>, edges |-> <<>>]

\* HashMap::get
get(ns, key) == IF key \in DOMAIN ns THEN ns[key] ELSE None

\* HashMap::insert: last write wins
insert(ns, key, node) == [k \in (DOMAIN ns) \cup {key} |-> IF k = key THEN node ELSE ns[k]]

\* the edges pushed for the inputs of `id`, in the order of the input list
InputEdges(inputs, id) == [i \in 1..Len(inputs) |-> Edge(inputs[i], id)]

add_source(g, id, ty) ==
  [nodes |-> insert(g.nodes, id, Source(ty)), edges |-> g.edges]

add_transform(g, id, in_ty, out_ty, inputs) ==
  [nodes |-> insert(g.nodes, id, Transform(in_ty, out_ty, <<>>)),
   edges |-> g.edges \o InputEdges(inputs, id)]

\* defined when the node is a Transform; the other arm panics
add_transform_output(g, id, name) ==
  [nodes |-> insert(g.nodes, id,
               Transform(g.nodes[id].in_ty, g.nodes[id].out_ty,
                         Append(g.nodes[id].named_outputs, name))),
   edges |-> g.edges]

add_sink(g, id, ty, inputs) ==
  [nodes |-> insert(g.nodes, id, Sink(ty)),
   edges |-> g.edges \o InputEdges(inputs, id)]

----------------------------------------------------------------------------
(* Results                                                                 *)

Ok(v) == [tag |-> "Ok", val |-> v]
Err(v) == [tag |-> "Err", val |-> v]
\* panic!, unreachable!
Panic == [tag |-> "Panic", val |-> <<>>]

----------------------------------------------------------------------------
(* paths_rec, paths                                                        *)

\* the chain reported for `node` met again on `path`: split_off at its first
\* position, push, reverse.  (CycleChainWholePath: without the split_off;
\* CycleChainNotReversed: without the reverse.)
CycleChainWholePath(path, node) == Reverse(Append(path, node))
CycleChainNotReversed(path, node) ==
  LET i == CHOOSE j \in 1..Len(path) : path[j] = node /\ \A k \in 1..(j - 1) : path[k] # node
  IN Append(SubSeq(path, i, Len(path)), node)
cycle_chain(path, node) ==
  LET i == CHOOSE j \in 1..Len(path) : path[j] = node /\ \A k \in 1..(j - 1) : path[k] # node
  IN Reverse(Append(SubSeq(path, i, Len(path)), node))

cycle_message(chain) ==
  CyclicPrefix \o JoinWith([i \in 1..Len(chain) |-> to_string(chain[i])], Arrow) \o CyclicSuffix

\* the path returned at a Source or an unknown key: reversed, source first.
\* (CompletePathNotReversed: without the reverse.)
CompletePathNotReversed(path) == path
complete_path(path) == Reverse(path)

\* graph.edges.iter().filter(|e| &e.to == node).map(|e| e.from.clone())
inputs_of(g, node) ==
  LET F[i \in 0..Len(g.edges)] ==
        IF i = 0 THEN <<>>
        ELSE IF g.edges[i].to = node THEN Append(F[i - 1], g.edges[i].from) ELSE F[i - 1]
  IN F[Len(g.edges)]

RECURSIVE paths_rec(_, _, _)
RECURSIVE visit_inputs(_, _, _, _)

\* the loop over the inputs: the first Err is returned at once
visit_inputs(g, inputs, path, paths) ==
  IF inputs = <<>> THEN Ok(paths)
  ELSE LET r == paths_rec(g, Head(inputs), path)
       IN IF r.tag = "Ok" THEN visit_inputs(g, Tail(inputs), path, paths \o r.val)
          ELSE r

paths_rec(g, node, path) ==
  IF \E i \in 1..Len(path) : path[i] = node
  THEN Err(cycle_message(cycle_chain(path, node)))
  ELSE LET path1 == Append(path, node)
       IN IF get(g.nodes, node).kind \in {"Source", "None"}
          THEN Ok(<<complete_path(path1)>>)
          ELSE visit_inputs(g, inputs_of(g, node), path1, <<>>)

\* the keys of the Sink nodes
SinkKeys(g) == {k \in DOMAIN g.nodes : g.nodes[k].kind = "Sink"}

\* the orders in which HashMap::iter can yield the keys of S
Orders(S) == {q \in [1..Cardinality(S) -> S] : \A i, j \in 1..Cardinality(S) : i # j => q[i] # q[j]}

\* the flat_map over the sinks, taken in `order`: [errors, nodes]
RECURSIVE CollectSinks(_, _, _, _)
CollectSinks(g, order, errors, ps) ==
  IF order = <<>> THEN [errors |-> errors, nodes |-> ps]
  ELSE LET r == paths_rec(g, Head(order), <<>>)
       IN IF r.tag = "Ok" THEN CollectSinks(g, Tail(order), errors, ps \o r.val)
          ELSE CollectSinks(g, Tail(order), Append(errors, r.val), ps)

paths(g, order) ==
  LET c == CollectSinks(g, order, <<>>, <<>>)
  IN IF c.errors # <<>> THEN Err(dedup(sort(c.errors))) ELSE Ok(c.nodes)

----------------------------------------------------------------------------
(* typecheck                                                               *)

mismatch_message(x_key, ty1, y_key, ty2) ==
  MismatchPrefix \o to_string(x_key) \o OpenParen \o DebugFmt(ty1) \o MismatchMiddle
    \o to_string(y_key) \o OpenParen \o DebugFmt(ty2) \o CloseParen

\* ty1 != ty2 && ty1 != DataType::Any && ty2 != DataType::Any
Incompatible(ty1, ty2) == ty1 # ty2 /\ ty1 # "Any" /\ ty2 # "Any"

\* one pair of path.windows(2): "skip", "panic", or the errors it pushes
check_pair(g, x_key, y_key) ==
  LET nx == get(g.nodes, x_key)
      ny == get(g.nodes, y_key)
  IN IF nx.kind = "None" \/ ny.kind = "None" THEN [panic |-> FALSE, errors |-> <<>>]
     ELSE IF nx.kind = "Sink" \/ ny.kind = "Source" THEN [panic |-> TRUE, errors |-> <<>>]
     ELSE LET ty1 == IF nx.kind = "Source" THEN nx.ty ELSE nx.out_ty
              ty2 == IF ny.kind = "Sink" THEN ny.ty ELSE ny.in_ty
          IN [panic |-> FALSE,
              errors |-> IF Incompatible(ty1, ty2)
                         THEN <<mismatch_message(x_key, ty1, y_key, ty2)>> ELSE <<>>]

\* the pairs of all path.windows(2), in the order typecheck visits them
RECURSIVE Windows(_)
Windows(ps) ==
  IF ps = <<>> THEN <<>>
  ELSE [i \in 1..(Len(Head(ps)) - 1) |-> <<Head(ps)[i], Head(ps)[i + 1]>>] \o Windows(Tail(ps))

\* the two nested loops: errors pushed so far, or the panic that ends them
RECURSIVE check_pairs(_, _, _)
check_pairs(g, ws, errors) ==
  IF ws = <<>> THEN [panic |-> FALSE, errors |-> errors]
  ELSE LET r == check_pair(g, Head(ws)[1], Head(ws)[2])
       IN IF r.panic THEN [panic |-> TRUE, errors |-> errors]
          ELSE check_pairs(g, Tail(ws), errors \o r.errors)

\* typecheck.  (TypecheckIgnoringCycles: the failure of paths() dropped
\* instead of returned by `?`.)
TypecheckIgnoringCycles(g, order) ==
  LET p == paths(g, order)
      r == check_pairs(g, Windows(IF p.tag = "Ok" THEN p.val ELSE <<>>), <<>>)
  IN IF r.panic THEN Panic
     ELSE IF r.errors = <<>> THEN Ok(<<>>)
     ELSE Err(dedup(sort(r.errors)))
typecheck(g, order) ==
  LET p == paths(g, order)
  IN IF p.tag = "Err" THEN p
     ELSE LET r == check_pairs(g, Windows(p.val), <<>>)
          IN IF r.panic THEN Panic
             ELSE IF r.errors = <<>> THEN Ok(<<>>)
             ELSE Err(dedup(sort(r.errors)))

----------------------------------------------------------------------------
(* check_inputs                                                            *)

\* the HashSet of valid outputs
valid_inputs(g) ==
  UNION {
    CASE g.nodes[k].kind = "Sink" -> {}
      [] g.nodes[k].kind = "Source" -> {k}
      [] g.nodes[k].kind = "Transform" ->
           {k} \cup {join(k, g.nodes[k].named_outputs[i]) : i \in 1..Len(g.nodes[k].named_outputs)}
    : k \in DOMAIN g.nodes }

input_message(from, output_type, to) ==
  InputPrefix \o to_string(from) \o InputFor \o output_type \o InputQuote \o to_string(to)
    \o InputSuffix

RECURSIVE check_edges(_, _, _)
check_edges(g, es, errors) ==
  IF es = <<>> THEN [panic |-> FALSE, errors |-> errors]
  ELSE IF Head(es).from \in valid_inputs(g) THEN check_edges(g, Tail(es), errors)
  ELSE LET n == get(g.nodes, Head(es).to)
       IN IF n.kind \notin {"Transform", "Sink"} THEN [panic |-> TRUE, errors |-> errors]
          ELSE check_edges(g, Tail(es),
                 Append(errors, input_message(Head(es).from,
                                  IF n.kind = "Transform" THEN TransformText ELSE SinkText,
                                  Head(es).to)))

check_inputs(g) ==
  LET r == check_edges(g, g.edges, <<>>)
  IN IF r.panic THEN Panic
     ELSE IF r.errors = <<>> THEN Ok(<<>>) ELSE Err(r.errors)

----------------------------------------------------------------------------
(* The program: a Graph under construction and validation                  *)

graph == [nodes |-> nodes, edges |-> edges]

\* no call made yet on this graph
NoResult == [op |-> "none", res |-> Ok(<<>>)]

\* a panic ends the program
Running == result.res.tag # "Panic"

\* the input lists of one call: at most MaxInputs keys of `keys`
InputLists(keys) == UNION {[1..n -> keys] : n \in 0..MaxInputs}

Install(g) == /\ nodes' = g.nodes
              /\ edges' = g.edges
              /\ result' = NoResult

AddSource(ids, tys) ==
  /\ Running
  /\ \E id \in ids, ty \in tys : Install(add_source(graph, id, ty))

AddTransform(ids, tys, keys, cap) ==
  /\ Running
  /\ \E id \in ids, in_ty \in tys, out_ty \in tys, inputs \in InputLists(keys) :
       /\ Len(edges) + Len(inputs) <= cap
       /\ Install(add_transform(graph, id, in_ty, out_ty, inputs))

AddTransformOutput(ids, names) ==
  /\ Running
  /\ \E id \in ids, name \in names :
       IF get(nodes, id).kind = "Transform"
       THEN /\ Len(nodes[id].named_outputs) < MaxPorts
            /\ Install(add_transform_output(graph, id, name))
       ELSE /\ result' = [op |-> "add_transform_output", res |-> Panic]
            /\ UNCHANGED <<nodes, edges>>

AddSink(ids, tys, keys, cap) ==
  /\ Running
  /\ \E id \in ids, ty \in tys, inputs \in InputLists(keys) :
       /\ Len(edges) + Len(inputs) <= cap
       /\ Install(add_sink(graph, id, ty, inputs))

Paths ==
  /\ Running
  /\ \E order \in Orders(SinkKeys(graph)) :
       result' = [op |-> "paths", res |-> paths(graph, order)]
  /\ UNCHANGED <<nodes, edges>>

Typecheck ==
  /\ Running
  /\ \E order \in Orders(SinkKeys(graph)) :
       result' = [op |-> "typecheck", res |-> typecheck(graph, order)]
  /\ UNCHANGED <<nodes, edges>>

CheckInputs ==
  /\ Running
  /\ result' = [op |-> "check_inputs", res |-> check_inputs(graph)]
  /\ UNCHANGED <<nodes, edges>>

Init ==
  /\ nodes = EmptyGraph.nodes
  /\ edges = EmptyGraph.edges
  /\ result = NoResult

Next ==
  \/ AddSource({KeyA}, DataType)
  \/ AddTransform({KeyA, KeyB}, DataType, {KeyA, KeyB, KeyC}, MaxEdges)
  \/ AddSink({KeyB, KeyC}, DataType, {KeyA, KeyB, KeyC}, MaxEdges)
  \/ Paths
  \/ Typecheck
  \/ CheckInputs

Spec == Init /\ [][Next]_vars

----------------------------------------------------------------------------
(* SpecInputs: one data type, named outputs and port keys as inputs        *)

InputKeys == {KeyA, KeyB, KeyC, join(KeyA, PortE), join(KeyB, PortE)}

NextInputs ==
  \/ AddSource({KeyA}, {"Log"})
  \/ AddTransform({KeyA, KeyB}, {"Log"}, InputKeys, MaxEdges)
  \/ AddTransformOutput({KeyA, KeyB}, {PortE})
  \/ AddSink({KeyB, KeyC}, {"Log"}, InputKeys, MaxEdges)
  \/ CheckInputs

SpecInputs == Init /\ [][NextInputs]_vars

----------------------------------------------------------------------------
(* SpecPaths: one data type, every shape of graph over three ids           *)

NextPaths ==
  \/ AddSource({KeyA}, {"Log"})
  \/ AddTransform({KeyA, KeyB}, {"Log"}, {KeyA, KeyB, KeyC}, MaxPathEdges)
  \/ AddSink({KeyB, KeyC}, {"Log"}, {KeyA, KeyB, KeyC}, MaxPathEdges)
  \/ Paths

SpecPaths == Init /\ [][NextPaths]_vars

----------------------------------------------------------------------------
(* SpecCycle: the graph after                                              *)
(*   add_transform(a, Log, Log, [c]); add_transform(b, Log, Log, [a]);     *)
(*   add_transform(c, Log, Log, [b])                                       *)
(* (the cycle a -> b -> c -> a), extended by a source x, by sinks s and t, *)
(* by a second declaration of b and by a source overwriting b              *)

CycleGraph ==
  add_transform(
    add_transform(
      add_transform(EmptyGraph, KeyA, "Log", "Log", <<KeyC>>),
      KeyB, "Log", "Log", <<KeyA>>),
    KeyC, "Log", "Log", <<KeyB>>)

InitCycle ==
  /\ nodes = CycleGraph.nodes
  /\ edges = CycleGraph.edges
  /\ result = NoResult

NextCycle ==
  \/ AddSource({KeyB, KeyX}, {"Log"})
  \/ AddTransform({KeyB}, {"Log"}, {KeyB}, Len(CycleGraph.edges) + MaxExtraEdges)
  \/ AddSink({KeyS}, {"Log", "Metric"}, {KeyA, KeyB, KeyC, KeyT, KeyX},
             Len(CycleGraph.edges) + MaxExtraEdges)
  \/ AddSink({KeyT}, {"Log"}, {KeyA, KeyB, KeyC, KeyT, KeyX},
             Len(CycleGraph.edges) + MaxExtraEdges)
  \/ Paths
  \/ Typecheck

SpecCycle == InitCycle /\ [][NextCycle]_vars

----------------------------------------------------------------------------
(* Graph notions the properties are stated with                            *)

\* the edge list as a relation: <<from, to>>
EdgePairs(g) == {<<g.edges[i].from, g.edges[i].to>> : i \in 1..Len(g.edges)}

\* every key the graph mentions
KeysOf(g) == (DOMAIN g.nodes) \cup {p[1] : p \in EdgePairs(g)} \cup {p[2] : p \in EdgePairs(g)}

\* the pairs joined by a walk of one edge or more of R (Warshall: walks
\* through the keys of K are added key by key)
RECURSIVE ClosureThrough(_, _)
ClosureThrough(R, K) ==
  IF K = {} THEN R
  ELSE LET k == CHOOSE x \in K : TRUE
           ends == {p[1] : p \in R} \cup {p[2] : p \in R}
       IN ClosureThrough(
            R \cup {uv \in ends \X ends : <<uv[1], k>> \in R /\ <<k, uv[2]>> \in R},
            K \ {k})

TransitiveClosure(R) == ClosureThrough(R, {p[1] : p \in R} \cap {p[2] : p \in R})

\* a directed cycle of edges from=k0 to=k1, from=k1 to=k2, ..., back to k0
HasDirectedCycle(g) == \E p \in TransitiveClosure(EdgePairs(g)) : p[1] = p[2]

\* the number of times edge <<u, v>> is declared
EdgeCount(g, u, v) ==
  Cardinality({i \in 1..Len(g.edges) : g.edges[i].from = u /\ g.edges[i].to = v})

IsKind(g, k, kinds) == get(g.nodes, k).kind \in kinds

\* the sequences of pairwise different keys of K
DistinctSeqs(K) ==
  UNION {{q \in [1..n -> K] : \A i, j \in 1..n : i # j => q[i] # q[j]} : n \in 1..Cardinality(K)}

\* the set of the elements of a sequence
Range(q) == {q[i] : i \in 1..Len(q)}

\* the output kind of a Source or Transform, the input kind of a Transform or Sink
ProducerKind(n) == IF n.kind = "Source" THEN n.ty ELSE n.out_ty
ConsumerKind(n) == IF n.kind = "Sink" THEN n.ty ELSE n.in_ty

----------------------------------------------------------------------------
(* C1                                                                      *)

\* C1: paths() fails with a cycle diagnostic if and only if the edge list
\* contains a directed cycle.
C1_CycleIffReported ==
  result.op = "paths" => (result.res.tag = "Err" <=> HasDirectedCycle(graph))

----------------------------------------------------------------------------
(* C5                                                                      *)

\* C5: on a graph without a directed cycle neither typecheck nor check_inputs
\* reaches the unreachable!() arm or the panic arm.
C5_NoInternalFailure ==
  (result.op \in {"typecheck", "check_inputs"} /\ ~HasDirectedCycle(graph))
    => result.res.tag # "Panic"

----------------------------------------------------------------------------
(* C6                                                                      *)

\* C6: on a graph without cycles typecheck returns Ok(()) only if every edge
\* whose two endpoints are in the node mapping joins a producer kind and a
\* consumer kind that are equal or one of which is Any.
C6_OkMeansEveryEdgeCompatible ==
  (result.op = "typecheck" /\ result.res.tag = "Ok" /\ ~HasDirectedCycle(graph))
    => \A p \in EdgePairs(graph) :
         (IsKind(graph, p[1], {"Source", "Transform"}) /\ IsKind(graph, p[2], {"Transform", "Sink"}))
           => ~Incompatible(ProducerKind(nodes[p[1]]), ConsumerKind(nodes[p[2]]))

----------------------------------------------------------------------------
(* C2                                                                      *)

\* the mismatch diagnostics of the adjacent pairs of the paths ps: both keys in
\* the node mapping, producer kind and consumer kind different and both not Any
MismatchesOf(g, ps) ==
  {mismatch_message(ps[i][j], ProducerKind(g.nodes[ps[i][j]]),
                    ps[i][j + 1], ConsumerKind(g.nodes[ps[i][j + 1]])) :
     <<i, j>> \in {ij \in (1..Len(ps)) \X (1..Cardinality(KeysOf(g))) :
                     /\ ij[2] < Len(ps[ij[1]])
                     /\ IsKind(g, ps[ij[1]][ij[2]], {"Source", "Transform"})
                     /\ IsKind(g, ps[ij[1]][ij[2] + 1], {"Transform", "Sink"})
                     /\ Incompatible(ProducerKind(g.nodes[ps[ij[1]][ij[2]]]),
                                     ConsumerKind(g.nodes[ps[ij[1]][ij[2] + 1]]))}}

\* C2: when paths() succeeds, typecheck returns Ok(()) exactly when no
\* enumerated path has a mismatching adjacent pair, and otherwise fails with
\* the mismatch messages of exactly those pairs.
C2_TypecheckIsMismatches ==
  result.op = "typecheck" =>
    \A order \in Orders(SinkKeys(graph)) :
      LET p == paths(graph, order)
      IN p.tag = "Ok" =>
           LET mm == MismatchesOf(graph, p.val)
           IN /\ result.res.tag = "Ok" <=> mm = {}
              /\ mm # {} => (result.res.tag = "Err" /\ Range(result.res.val) = mm)

----------------------------------------------------------------------------
(* C3                                                                      *)

\* the valid outputs: sources, transforms, and <transform>.<port> for every
\* registered port
ValidOutputs(g) ==
  {k \in DOMAIN g.nodes : g.nodes[k].kind \in {"Source", "Transform"}}
    \cup {join(k, n) : <<k, n>> \in {kn \in (DOMAIN g.nodes) \X {PortE} :
                                      /\ g.nodes[kn[1]].kind = "Transform"
                                      /\ kn[2] \in Range(g.nodes[kn[1]].named_outputs)}}

\* <role>: transform or sink according to the node of `to`
RoleOf(g, to) ==
  CASE IsKind(g, to, {"Transform"}) -> TransformText
    [] IsKind(g, to, {"Sink"}) -> SinkText
    [] OTHER -> <<>>

\* one diagnostic per offending edge, in edge order
RECURSIVE ExpectedInputErrors(_, _)
ExpectedInputErrors(g, es) ==
  IF es = <<>> THEN <<>>
  ELSE (IF Head(es).from \in ValidOutputs(g) THEN <<>>
        ELSE <<InputPrefix \o Head(es).from \o InputFor \o RoleOf(g, Head(es).to)
                 \o InputQuote \o Head(es).to \o InputSuffix>>)
       \o ExpectedInputErrors(g, Tail(es))

\* C3: check_inputs returns exactly one diagnostic per edge whose from key is
\* not a valid output, in edge order and without deduplication, and Ok(())
\* exactly when no edge is offending.
C3_OneDiagnosticPerOffendingEdge ==
  result.op = "check_inputs" =>
    LET ex == ExpectedInputErrors(graph, edges)
    IN result.res = IF ex = <<>> THEN Ok(<<>>) ELSE Err(ex)

----------------------------------------------------------------------------
(* Cycles as the traversal meets them                                      *)

\* the edges the traversal follows: those into a Transform or a Sink (a
\* Source or an absent key ends the path)
WalkedPairs(g) == {p \in EdgePairs(g) : IsKind(g, p[2], {"Transform", "Sink"})}

\* the walks of the traversal
Walks(g) == TransitiveClosure(WalkedPairs(g))

\* the keys the traversal from sink s can stand on, T being the walks
ReachedFrom(T, s) == {s} \cup {p[1] : p \in {q \in T : q[2] = s}}

\* the traversal from sink s meets some key twice
SinkReachesCycle(T, s) == \E k \in ReachedFrom(T, s) : <<k, k>> \in T

\* the sinks whose traversal meets a cycle
CycleSinks(g) == LET T == Walks(g) IN {s \in SinkKeys(g) : SinkReachesCycle(T, s)}

\* the simple cycles of walked edges, each written from each of its keys:
\* q[1] -> q[2] -> ... -> q[n] -> q[1]
SimpleCycles(g, T) ==
  {q \in DistinctSeqs({k \in KeysOf(g) : <<k, k>> \in T}) :
     /\ \A i \in 1..(Len(q) - 1) : <<q[i], q[i + 1]>> \in WalkedPairs(g)
     /\ <<q[Len(q)], q[1]>> \in WalkedPairs(g)}

\* "Cyclic dependency detected in the chain [ k1 -> ... -> kn ]"
ChainText(q) ==
  LET J[i \in 1..Len(q)] == IF i = 1 THEN q[1] ELSE J[i - 1] \o Arrow \o q[i]
  IN CyclicPrefix \o J[Len(q)] \o CyclicSuffix

----------------------------------------------------------------------------
(* C4                                                                      *)

\* the edges that lie on a directed cycle
CycleEdges(g) ==
  LET T == TransitiveClosure(EdgePairs(g)) IN {p \in EdgePairs(g) : <<p[2], p[1]>> \in T}

\* the only cycle of the graph is a -> b -> c -> a
OnlyCycleABC(g) == CycleEdges(g) = {<<KeyA, KeyB>>, <<KeyB, KeyC>>, <<KeyC, KeyA>>}

\* the key after k on the cycle
After(k) == CASE k = KeyA -> KeyB [] k = KeyB -> KeyC [] k = KeyC -> KeyA

\* the chain of the cycle written from k
RotationText(k) == ChainText(<<k, After(k), After(After(k)), k>>)

\* the walks of the traversal that stay outside the cycle once they left it
OutsideWalks(g) ==
  TransitiveClosure({p \in WalkedPairs(g) : p[2] \notin {KeyA, KeyB, KeyC}})

\* the keys of the cycle at which the traversal from sink s can enter it:
\* reached from s through keys outside the cycle (O being the outside walks)
EntriesFrom(O, s) == {k \in {KeyA, KeyB, KeyC} : k = s \/ <<k, s>> \in O}

\* C4 as stated: when the only cycle is a -> b -> c -> a and a sink reaches
\* it, paths() and typecheck fail with exactly the one diagnostic whose chain
\* is [ a -> b -> c -> a ], whichever sink and whichever consumed key.
C4_AlwaysChainFromA ==
  (result.op \in {"paths", "typecheck"} /\ OnlyCycleABC(graph) /\ CycleSinks(graph) # {})
    => result.res = Err(<<ChainText(<<KeyA, KeyB, KeyC, KeyA>>)>>)

\* C4 amended: when the only cycle is a -> b -> c -> a, paths() fails exactly
\* when the traversal from some sink reaches the cycle; each diagnostic is the
\* chain of the cycle written from the key at which a sink's traversal entered
\* it ([ k -> ... -> k ], so [ a -> b -> c -> a ] only on entry at a), every
\* sink that reaches the cycle has the chain of one of its entries reported,
\* and typecheck returns the list paths() returns.
C4_ChainFromEntry ==
  (result.op \in {"paths", "typecheck"} /\ OnlyCycleABC(graph)) =>
    LET cs == CycleSinks(graph)
        O == OutsideWalks(graph)
    IN /\ result.op = "paths" => (result.res.tag = "Err" <=> cs # {})
       /\ cs # {} =>
            /\ result.res.tag = "Err"
            /\ \A i \in 1..Len(result.res.val) :
                 \E s \in cs : \E k \in EntriesFrom(O, s) : result.res.val[i] = RotationText(k)
            /\ \A s \in cs :
                 \E k \in EntriesFrom(O, s) : RotationText(k) \in Range(result.res.val)
            /\ \A order \in Orders(SinkKeys(graph)) : result.res = paths(graph, order)

\* two sinks entered the cycle at two keys, neither at a
C4_Witness ==
  /\ result.op = "paths"
  /\ OnlyCycleABC(graph)
  /\ result.res.tag = "Err"
  /\ Len(result.res.val) = 2
  /\ ChainText(<<KeyA, KeyB, KeyC, KeyA>>) \notin Range(result.res.val)

----------------------------------------------------------------------------
(* C7                                                                      *)

\* the paths the traversal from sink s alone returns (none when it fails)
PathsOfSink(g, s) ==
  LET r == paths_rec(g, s, <<>>) IN IF r.tag = "Ok" THEN r.val ELSE <<>>

\* the cycle q written from its i-th key, back to it
WrittenFrom(q, i) == [j \in 1..(Len(q) + 1) |-> q[((i + j - 2) % Len(q)) + 1]]

\* C7 as stated: when a sink reaches a cycle, typecheck still reports every
\* cycle reachable from any sink (also a second one reachable from the same
\* sink) and every type mismatch on the paths of the sinks that reach none.
C7_EverythingReported ==
  (result.op = "typecheck" /\ CycleSinks(graph) # {}) =>
    LET T == Walks(graph)
        cycles == SimpleCycles(graph, T)
    IN /\ result.res.tag = "Err"
       /\ \A s \in CycleSinks(graph) :
            \A q \in {c \in cycles : Range(c) \subseteq ReachedFrom(T, s)} :
              \E i \in 1..Len(q) : ChainText(WrittenFrom(q, i)) \in Range(result.res.val)
       /\ \A s \in SinkKeys(graph) \ CycleSinks(graph) :
            MismatchesOf(graph, PathsOfSink(graph, s)) \subseteq Range(result.res.val)

\* C7 amended: a cycle met by a sink's traversal ends the whole traversal of
\* that sink (one diagnostic per sink, of the first cycle it meets) while the
\* other sinks are still traversed; so typecheck fails with cycle diagnostics
\* only, at most one per sink that reaches a cycle and at least one for each
\* such sink, and reports no type mismatch at all in that call.
C7_FirstCyclePerSinkOnly ==
  result.op = "typecheck" =>
    LET T == Walks(graph)
        cs == {s \in SinkKeys(graph) : SinkReachesCycle(T, s)}
        cycles == SimpleCycles(graph, T)
        texts(s) == {ChainText(Append(q, q[1])) :
                       q \in {c \in cycles : Range(c) \subseteq ReachedFrom(T, s)}}
    IN cs # {} =>
         /\ result.res.tag = "Err"
         /\ Len(result.res.val) <= Cardinality(cs)
         /\ \A i \in 1..Len(result.res.val) : \E s \in cs : result.res.val[i] \in texts(s)
         /\ \A s \in cs : \E i \in 1..Len(result.res.val) : result.res.val[i] \in texts(s)

\* a sink reaches a cycle, another sink reaches none and has a mismatch on
\* its path, and typecheck has reported
C7_Witness ==
  /\ result.op = "typecheck"
  /\ CycleSinks(graph) # {}
  /\ \E s \in SinkKeys(graph) \ CycleSinks(graph) :
       MismatchesOf(graph, PathsOfSink(graph, s)) # {}

----------------------------------------------------------------------------
(* C8                                                                      *)

\* C8: every failure list typecheck returns is non-empty, in ascending
\* lexicographic order and free of duplicates, and is the same for every
\* order in which the sinks are visited.
C8_FailuresSortedDeduplicated ==
  (result.op = "typecheck" /\ result.res.tag = "Err") =>
    /\ result.res.val # <<>>
    /\ \A i, j \in 1..Len(result.res.val) :
         i < j => StrLess(result.res.val[i], result.res.val[j])
    /\ \A order \in Orders(SinkKeys(graph)) : typecheck(graph, order) = result.res

\* the same violation was found from two sinks and is reported once
C8_Witness ==
  /\ result.op = "typecheck"
  /\ result.res.tag = "Err"
  /\ Len(result.res.val) = 1
  /\ Cardinality(CycleSinks(graph)) = 2

----------------------------------------------------------------------------
(* C9                                                                      *)

\* x is a transform with itself as an input, consumed by a sink, and the
\* graph has no other cycle
SelfLoopOnly(g, x) ==
  /\ IsKind(g, x, {"Transform"})
  /\ <<x, x>> \in EdgePairs(g)
  /\ \E s \in SinkKeys(g) : <<x, s>> \in EdgePairs(g)
  /\ \A p \in TransitiveClosure(EdgePairs(g) \ {<<x, x>>}) : p[1] # p[2]

\* C9: for a transform X that declares X as its own input and is consumed by
\* a sink, with no other cycle in the graph, paths() fails with exactly
\* ['Cyclic dependency detected in the chain [ X -> X ]'].
C9_SelfLoopChain ==
  result.op = "paths" =>
    \A x \in KeysOf(graph) :
      SelfLoopOnly(graph, x) => result.res = Err(<<ChainText(<<x, x>>)>>)

C9_Witness ==
  /\ result.op = "paths"
  /\ SelfLoopOnly(graph, KeyA)
  /\ Cardinality(SinkKeys(graph)) = 2

----------------------------------------------------------------------------
(* C10                                                                     *)

\* q ends with a Sink key, begins with a key that is a Source or absent,
\* holds no key twice, and every adjacent pair of it is an edge
IsRoute(g, q) ==
  /\ Len(q) >= 2
  /\ IsKind(g, q[Len(q)], {"Sink"})
  /\ IsKind(g, q[1], {"Source", "None"})
  /\ \A i \in 1..(Len(q) - 1) : <<q[i], q[i + 1]>> \in EdgePairs(g)

\* a route all of whose keys but the first are Transform or Sink nodes
IsWalkedRoute(g, q) ==
  /\ IsRoute(g, q)
  /\ \A i \in 2..Len(q) : IsKind(g, q[i], {"Transform", "Sink"})

\* the combinations of declared edges that spell q
RouteCount(g, q) ==
  LET P[i \in 1..Len(q)] == IF i = 1 THEN 1 ELSE P[i - 1] * EdgeCount(g, q[i - 1], q[i])
  IN P[Len(q)]

Occurrences(ps, q) == Cardinality({i \in 1..Len(ps) : ps[i] = q})

====
